---- MODULE Spec2Model ----
(***************************************************************************)
(* jirafly: classification of Jira issues into Tasks (models.py), the team *)
(* capacity model (team_config.py), the planning / ratio commands (cli.py, *)
(* utils.py) and the planning command of the single-file predecessor       *)
(* (main.py).                                                              *)
(*                                                                         *)
(* Python strings on which the code works character by character (names,   *)
(* version labels) are sequences of one-character strings; strings that    *)
(* are only compared for equality (labels, issue types, keys) are TLA+     *)
(* strings.  Floats are modelled as integers (tenths are not needed: all   *)
(* sums are exact in the cases examined).                                  *)
(***************************************************************************)
EXTENDS Integers, Sequences, FiniteSets, TLC

VARIABLES
    pc,                 \* position of the running command / function
    cmd,                \* "classify" | "team" | "planning" | "ratio"
    issue,              \* raw issue handed to Task.from_raw_issue
    task,               \* the Task it returned (NoTask before)
    tracker,            \* the issues the Jira filter matches
    filter_id,          \* --filter-id / *_FILTER_ID
    team,               \* content of the team YAML file
    member,             \* --member option values
    team_config,        \* TeamConfig returned by load_team_config
    parsed_overrides,   \* dict returned by parse_member_option
    team_members,       \* dict returned by apply_overrides
    client,             \* "none" | "constructed"  (JiraClient)
    requests,           \* number of tracker requests sent
    tasks,              \* list returned by client.fetch_tasks
    i,                  \* loop index over tasks / buckets
    tasks_by_assignee,  \* planning: dict name -> MemberPlan
    buckets,            \* ratio: dict fix_version -> {"ratio","time","tasks"}
    totals,             \* ratio: running grand totals
    table,              \* ratio: rows added to the PrettyTable so far
    out,                \* report content written to stdout
    err,                \* exception / exit that ended the command ("" if none)
    version_input,      \* argument of Task._extract_version_number
    version_result,     \* what Task._extract_version_number returned
    pages,              \* the pages the search endpoint serves
    next_page_token,    \* fetch_tasks: token of the last response (0: none)
    all_issues,         \* fetch_tasks: issues received so far
    sent,               \* tokens sent with the search requests, in order
    sprint,             \* update_fix_versions: the sprint argument
    versions,           \* the versions of the Jira project
    confirm,            \* the user's answer to typer.confirm
    failing,            \* keys of the issues whose update the server refuses
    version_id,         \* update_fix_versions: id of the version found
    updates             \* update requests sent, in order

vars == <<pc, cmd, issue, task, tracker, filter_id, team, member, team_config,
          parsed_overrides, team_members, client, requests, tasks, i,
          tasks_by_assignee, buckets, totals, table, out, err, version_input,
          version_result, pages, next_page_token, all_issues, sent, sprint,
          versions, confirm, failing, version_id, updates>>

\* the state of the paged search and of the fix version update
paging == <<pages, next_page_token, all_issues, sent>>

updating == <<sprint, versions, confirm, failing, version_id, updates>>

-----------------------------------------------------------------------------
(* Python values *)

\* None, as a value comparable with character sequences
None == <<"None">>

\* str.isspace for the one whitespace character of the alphabet
IsSpace(c) == c = " "

\* the characters used, in code point order
Chars == <<" ", ",", "-", ".", "0", "1", "2", "3", "4", "5", "6", "7", "8",
           "9", "=", "A", "B", "C", "F", "M", "N", "O", "P", "U", "V", "a", "b",
           "c", "d", "e", "g", "i", "j", "k", "l", "n", "o", "r", "s", "v", "x",
           "z">>

Ord(c) == CHOOSE k \in 1..Len(Chars) : Chars[k] = c

\* a < b for Python strings (lexicographic by code point)
RECURSIVE StrLess(_, _)
StrLess(a, b) ==
    IF b = <<>> THEN FALSE
    ELSE IF a = <<>> THEN TRUE
    ELSE IF Head(a) = Head(b) THEN StrLess(Tail(a), Tail(b))
    ELSE Ord(Head(a)) < Ord(Head(b))

\* str.lstrip / str.rstrip / str.strip
RECURSIVE LStrip(_)
LStrip(s) == IF s # <<>> /\ IsSpace(Head(s)) THEN LStrip(Tail(s)) ELSE s

RECURSIVE RStrip(_)
RStrip(s) ==
    IF s # <<>> /\ IsSpace(s[Len(s)]) THEN RStrip(SubSeq(s, 1, Len(s) - 1)) ELSE s

Strip(s) == RStrip(LStrip(s))

\* the part of s before the first c (all of s if there is none)
RECURSIVE TakeUntil(_, _)
TakeUntil(s, c) ==
    IF s = <<>> \/ Head(s) = c THEN <<>>
    ELSE <<Head(s)>> \o TakeUntil(Tail(s), c)

\* does s contain c
Contains(s, c) == \E k \in 1..Len(s) : s[k] = c

\* the part of s after the first c (only used when Contains(s, c))
DropThrough(s, c) == SubSeq(s, Len(TakeUntil(s, c)) + 2, Len(s))

\* str.split(): the whitespace-separated words of s
RECURSIVE Split(_)
Split(s) ==
    LET t == LStrip(s) IN
    IF t = <<>> THEN <<>>
    ELSE LET w == TakeUntil(t, " ")
         IN <<w>> \o Split(SubSeq(t, Len(w) + 1, Len(t)))

\* str.split("."): the dot-separated parts of s (always at least one)
RECURSIVE SplitDot(_)
SplitDot(s) ==
    IF Contains(s, ".")
    THEN <<TakeUntil(s, ".")>> \o SplitDot(DropThrough(s, "."))
    ELSE <<s>>

-----------------------------------------------------------------------------
(* models.py *)

UNASSIGNED == <<"U", "n", "a", "s", "s", "i", "g", "n", "e", "d">>

\* a JSON number field: a number, null / absent, or a non-numeric string
Num(n) == [kind |-> "num", val |-> n]
Null == [kind |-> "null", val |-> 0]
NonNumeric == [kind |-> "str", val |-> 0]

\* float(v or 0) / int(v or 0): the value, and whether the conversion raises
NumberRaises(v) == v.kind = "str"
NumberOf(v) == IF v.kind = "num" THEN v.val ELSE 0

\* the "assignee" field: null, or a user object (never an empty object)
NoAssignee == [present |-> FALSE, displayName |-> None]
User(n) == [present |-> TRUE, displayName |-> n]

\* Task._extract_version_number; "IndexError" when split() yields no word
ExtractRaises(version_name) ==
    version_name # None /\ version_name # <<>> /\ Split(version_name) = <<>>

_extract_version_number(version_name) ==
    IF version_name = None \/ version_name = <<>> THEN None
    ELSE LET version_part == Split(version_name)[1]
             parts == SplitDot(version_part)
         IN IF Len(parts) >= 2 THEN parts[1] \o <<".">> \o parts[2]
            ELSE version_part

\* x.get("name", ""): the sort key of a version object; an object without
\* a "name" entry is written None in the list of names
NameKey(name) == IF name = None THEN <<>> ELSE name

\* sorted(versions, key=name, reverse=True)[0]: the first of the greatest names
MaxName(names) ==
    names[CHOOSE k \in 1..Len(names) :
            /\ \A j \in 1..Len(names) : ~StrLess(NameKey(names[k]), NameKey(names[j]))
            /\ \A j \in 1..(k - 1) : NameKey(names[j]) # NameKey(names[k])]

\* the exception raised while deriving a label from version objects ("" if
\* none): sorted(...)[0]["name"] on an object without name, or the parser's
VersionRaises(names) ==
    IF names = <<>> THEN ""
    ELSE IF MaxName(names) = None THEN "KeyError"
    ELSE IF ExtractRaises(MaxName(names)) THEN "IndexError"
    ELSE ""

\* task.fix_version / task.sprint from the version objects of the issue
VersionOf(names) ==
    IF names = <<>> THEN None ELSE _extract_version_number(MaxName(names))

\* str.upper on one character
Lower == <<"a", "b", "c", "d", "e", "g", "i", "j", "k", "l", "n", "o", "r", "s",
           "v", "x", "z">>
Upper == <<"A", "B", "C", "D", "E", "G", "I", "J", "K", "L", "N", "O", "R", "S",
           "V", "X", "Z">>

ToUpper(c) ==
    IF \E k \in 1..Len(Lower) : Lower[k] = c
    THEN Upper[CHOOSE k \in 1..Len(Lower) : Lower[k] = c]
    ELSE c

\* _get_initials of from_raw_issue
_get_initials(tl_data) ==
    IF ~tl_data.present \/ Strip(NameKey(tl_data.displayName)) = <<>> THEN <<>>
    ELSE LET words == Split(tl_data.displayName)
         IN [k \in 1..Len(words) |-> ToUpper(Head(words[k]))]

\* TechLeadsOf with nothing in the place of a missing tech lead
TechLeadsOf_NoPlaceholder(tl1, tl2) ==
    LET first == _get_initials(tl1)
        second == _get_initials(tl2)
    IN IF first # <<>> \/ second # <<>> THEN first \o <<"/">> \o second ELSE <<>>

\* task.tl
TechLeadsOf(tl1, tl2) ==
    LET first == _get_initials(tl1)
        second == _get_initials(tl2)
        blank == <<" ", " ">>
    IN IF first # <<>> \/ second # <<>>
       THEN (IF first # <<>> THEN first ELSE blank) \o <<"/">>
                \o (IF second # <<>> THEN second ELSE blank)
       ELSE <<>>

\* fields.get(name, default): is the entry absent, null, or a value
IsAbsent(raw, name) == name \in raw.absent
IsNull(raw, name) == name \notin raw.absent /\ name \in raw.null
HasValue(raw, name) == name \notin raw.absent /\ name \notin raw.null

\* fields.get("fixVersions", []) / fields.get(CUSTOM_FIELD_SPRINT, [])
ListOf(raw, name, value) == IF HasValue(raw, name) THEN value ELSE <<>>

\* RatioTypeOf with the two label rules in the wrong order
RatioTypeOf_MaintenanceFirst(labels, type) ==
    IF "Maintenance" \in labels \/ "DevOps" \in labels THEN "Maintenance"
    ELSE IF "RatioExcluded" \in labels \/ "Bughunting" \in labels THEN "Excluded"
    ELSE IF type = "Bug" THEN "Bug"
    ELSE "Product"

\* the ratio type chosen by from_raw_issue
RatioTypeOf(labels, type) ==
    IF "RatioExcluded" \in labels \/ "Bughunting" \in labels THEN "Excluded"
    ELSE IF "Maintenance" \in labels \/ "DevOps" \in labels THEN "Maintenance"
    ELSE IF type = "Bug" THEN "Bug"
    ELSE "Product"

\* the ratio type chosen by the earlier Task.__init__ of main.py (no Bug rule)
LegacyRatioTypeOf(labels) ==
    IF "RatioExcluded" \in labels \/ "Bughunting" \in labels THEN "Excluded"
    ELSE IF "Maintenance" \in labels \/ "DevOps" \in labels THEN "Maintenance"
    ELSE "Product"

\* task.assignee
AssigneeOf(assignee_data) ==
    IF assignee_data.present THEN assignee_data.displayName ELSE UNASSIGNED

\* task.is_assigned
IsAssignedOf(assignee_data) == assignee_data.present

\* the exception from_raw_issue raises on this issue ("" if it returns)
FromRawIssueRaises(raw) ==
    IF IsAbsent(raw, "key") THEN "KeyError"
    ELSE IF IsNull(raw, "issuetype") \/ IsNull(raw, "status") THEN "AttributeError"
    ELSE IF NumberRaises(raw.hle) \/ NumberRaises(raw.wsjf) THEN "ValueError"
    ELSE IF IsNull(raw, "labels") THEN "TypeError"
    ELSE IF VersionRaises(ListOf(raw, "fixVersions", raw.fixVersions)) # ""
    THEN VersionRaises(ListOf(raw, "fixVersions", raw.fixVersions))
    ELSE IF VersionRaises(ListOf(raw, "sprint", raw.sprint)) # ""
    THEN VersionRaises(ListOf(raw, "sprint", raw.sprint))
    ELSE IF IsNull(raw, "timetracking") THEN "AttributeError"
    ELSE ""

NoTask == [raised |-> "NoTask"]

from_raw_issue(raw) ==
    IF FromRawIssueRaises(raw) # "" THEN [raised |-> FromRawIssueRaises(raw)]
    ELSE [raised      |-> "",
          key         |-> raw.key,
          title       |-> IF IsAbsent(raw, "summary") THEN "" ELSE raw.summary,
          type        |-> IF IsAbsent(raw, "issuetype") THEN "" ELSE raw.issuetype,
          status      |-> IF IsAbsent(raw, "status") THEN "" ELSE raw.status,
          assignee    |-> AssigneeOf(raw.assignee),
          is_assigned |-> IsAssignedOf(raw.assignee),
          hle         |-> NumberOf(raw.hle),
          wsjf        |-> NumberOf(raw.wsjf),
          tl          |-> TechLeadsOf(raw.tl1, raw.tl2),
          ratio_type  |-> RatioTypeOf(IF IsAbsent(raw, "labels") THEN {} ELSE raw.labels,
                                      IF IsAbsent(raw, "issuetype") THEN ""
                                      ELSE raw.issuetype),
          fix_version |-> VersionOf(ListOf(raw, "fixVersions", raw.fixVersions)),
          sprint      |-> VersionOf(ListOf(raw, "sprint", raw.sprint)),
          time_spent  |-> IF IsAbsent(raw, "timetracking")
                             \/ IsAbsent(raw, "timeSpentSeconds")
                          THEN 0 ELSE raw.timeSpentSeconds]

-----------------------------------------------------------------------------
(* Python dicts: insertion-ordered sequences of [k, v] with distinct keys *)

DictHas(d, key) == \E n \in 1..Len(d) : d[n].k = key

DictGet(d, key) == d[CHOOSE n \in 1..Len(d) : d[n].k = key].v

\* d[key] = val
DictSet(d, key, val) ==
    IF DictHas(d, key)
    THEN [n \in 1..Len(d) |-> IF d[n].k = key THEN [k |-> key, v |-> val] ELSE d[n]]
    ELSE Append(d, [k |-> key, v |-> val])

DictKeys(d) == {d[n].k : n \in 1..Len(d)}

\* sum of f[n] over n in 1..len
RECURSIVE SumTo(_, _)
SumTo(f, len) == IF len = 0 THEN 0 ELSE f[len] + SumTo(f, len - 1)

-----------------------------------------------------------------------------
(* team_config.py *)

\* the Field and field_validator constraints of TeamMember
MemberValid(m) ==
    /\ Len(m.name) >= 1
    /\ Strip(m.name) # <<>>
    /\ Len(m.nickname) >= 1
    /\ Strip(m.nickname) # <<>>
    /\ m.wd > 0
    /\ m.wd <= 10
    /\ m.vel > 0

\* does TeamConfig(**raw_config) raise a ValidationError
LoadRaises(raw_config) ==
    \/ Len(raw_config.members) < 1
    \/ \E n \in 1..Len(raw_config.members) : ~MemberValid(raw_config.members[n])

NoConfig == [members |-> <<>>, working_days_per_sprint |-> <<>>]

\* load_team_config, when it does not raise: the validated TeamConfig
load_team_config(raw_config) ==
    [members |->
        [n \in 1..Len(raw_config.members) |->
            [name     |-> Strip(raw_config.members[n].name),
             nickname |-> Strip(raw_config.members[n].nickname),
             wd       |-> raw_config.members[n].wd,
             vel      |-> raw_config.members[n].vel]],
     working_days_per_sprint |-> raw_config.working_days_per_sprint]

\* TeamConfig.to_member_dict
RECURSIVE MemberDictOf(_, _)
MemberDictOf(members, len) ==
    IF len = 0 THEN <<>>
    ELSE DictSet(MemberDictOf(members, len - 1), members[len].name,
                 <<members[len].wd, members[len].vel>>)

to_member_dict(config) == MemberDictOf(config.members, Len(config.members))

\* TeamConfig.to_nickname_dict
RECURSIVE NicknameDictOf(_, _)
NicknameDictOf(members, len) ==
    IF len = 0 THEN <<>>
    ELSE DictSet(NicknameDictOf(members, len - 1), members[len].nickname,
                 <<members[len].name, members[len].wd, members[len].vel>>)

to_nickname_dict(config) == NicknameDictOf(config.members, Len(config.members))

\* the loop of apply_overrides over the first len overrides
RECURSIVE ApplyLoop(_, _, _, _)
ApplyLoop(team_dict, nickname_dict, overrides, len) ==
    IF len = 0 THEN team_dict
    ELSE LET before == ApplyLoop(team_dict, nickname_dict, overrides, len - 1)
             nickname == overrides[len].k
         IN IF ~DictHas(nickname_dict, nickname) THEN before
            ELSE DictSet(before, DictGet(nickname_dict, nickname)[1],
                         overrides[len].v)

\* TeamConfig.apply_overrides
apply_overrides(config, overrides) ==
    ApplyLoop(to_member_dict(config), to_nickname_dict(config), overrides,
              Len(overrides))

-----------------------------------------------------------------------------
(* cli.py: parse_member_option *)

Digits == <<"0", "1", "2", "3", "4", "5", "6", "7", "8", "9">>

IsDigit(c) == \E n \in 1..10 : Digits[n] = c

DigitValue(c) == (CHOOSE n \in 1..10 : Digits[n] = c) - 1

\* float(s), for s made of an optional sign, digits and other characters: s
\* is numeric when, stripped, it is a non-empty run of digits after the sign
FloatRaises(s) ==
    LET t == Strip(s)
        u == IF t # <<>> /\ Head(t) = "-" THEN Tail(t) ELSE t
    IN u = <<>> \/ \E n \in 1..Len(u) : ~IsDigit(u[n])

RECURSIVE DecimalValue(_)
DecimalValue(u) ==
    IF u = <<>> THEN 0
    ELSE 10 * DecimalValue(SubSeq(u, 1, Len(u) - 1)) + DigitValue(u[Len(u)])

FloatOf(s) ==
    LET t == Strip(s)
    IN IF Head(t) = "-" THEN 0 - DecimalValue(Tail(t)) ELSE DecimalValue(t)

\* does one --member value make parse_member_option raise BadParameter
ValueRaises(value) ==
    \/ ~Contains(value, "=")
    \/ LET rest == DropThrough(value, "=")
       IN \/ ~Contains(rest, ",")
          \/ FloatRaises(TakeUntil(rest, ","))
          \/ FloatRaises(DropThrough(rest, ","))

ParseRaises(values) == \E n \in 1..Len(values) : ValueRaises(values[n])

\* parse_member_option, when it does not raise
RECURSIVE ParseLoop(_, _)
ParseLoop(values, len) ==
    IF len = 0 THEN <<>>
    ELSE LET value == values[len]
             rest == DropThrough(value, "=")
         IN DictSet(ParseLoop(values, len - 1), Strip(TakeUntil(value, "=")),
                    <<FloatOf(TakeUntil(rest, ",")), FloatOf(DropThrough(rest, ","))>>)

parse_member_option(values) == ParseLoop(values, Len(values))

-----------------------------------------------------------------------------
(* jira_service.py: fetch_tasks, as far as the commands depend on it *)

\* NonEpic with the Epics kept
NonEpic_KeepEpics(issues) == issues

\* the issues that become Tasks: every issue whose type is not "Epic"
NonEpic(issues) ==
    SelectSeq(issues, LAMBDA raw : IsAbsent(raw, "issuetype")
                                      \/ IsNull(raw, "issuetype")
                                      \/ raw.issuetype # "Epic")

\* the exception fetch_tasks raises while building the Tasks ("" if none)
FetchRaises(issues) ==
    LET kept == NonEpic(issues)
    IN IF \E n \in 1..Len(kept) : FromRawIssueRaises(kept[n]) # ""
       THEN FromRawIssueRaises(
                kept[CHOOSE n \in 1..Len(kept) :
                        /\ FromRawIssueRaises(kept[n]) # ""
                        /\ \A j \in 1..(n - 1) : FromRawIssueRaises(kept[j]) = ""])
       ELSE ""

fetch_tasks(issues) ==
    LET kept == NonEpic(issues)
    IN [n \in 1..Len(kept) |-> from_raw_issue(kept[n])]

-----------------------------------------------------------------------------
(* cli.py: planning, with utils.py: print_general_info, print_tasks_by_assignee *)

Categories == {"Maintenance", "Bug", "Product", "Excluded"}

\* MemberPlan(wd, vel)
MemberPlan(wd, vel) == [wd |-> wd, vel |-> vel, tasks |-> <<>>, total_hle |-> 0]

\* defaultdict(lambda: MemberPlan(0, 0), {name: MemberPlan(*config) ...})
InitialPlans(members_dict) ==
    [n \in 1..Len(members_dict) |->
        [k |-> members_dict[n].k,
         v |-> MemberPlan(members_dict[n].v[1], members_dict[n].v[2])]]

\* tasks_by_assignee[key] of the defaultdict: a missing key is inserted
Lookup(plans, key) ==
    IF DictHas(plans, key) THEN plans ELSE DictSet(plans, key, MemberPlan(0, 0))

\* AddTask with a plain dict holding an UNASSIGNED plan: a task of an unknown
\* assignee is put into the UNASSIGNED plan
AddTask_ToUnassigned(plans, t) ==
    LET name == IF DictHas(plans, t.assignee) THEN t.assignee ELSE UNASSIGNED
        looked == Lookup(plans, name)
        plan == DictGet(looked, name)
    IN DictSet(looked, name,
               [plan EXCEPT !.total_hle = @ + t.hle, !.tasks = Append(@, t)])

\* AddTask with the total overwritten by the estimate of the task
AddTask_LastEstimate(plans, t) ==
    LET looked == Lookup(plans, t.assignee)
        plan == DictGet(looked, t.assignee)
    IN DictSet(looked, t.assignee,
               [plan EXCEPT !.total_hle = t.hle, !.tasks = Append(@, t)])

\* one iteration of the aggregation loop of planning
AddTask(plans, t) ==
    LET looked == Lookup(plans, t.assignee)
        plan == DictGet(looked, t.assignee)
    IN DictSet(looked, t.assignee,
               [plan EXCEPT !.total_hle = @ + t.hle, !.tasks = Append(@, t)])

\* the aggregation loop of planning over the first len tasks of ts
RECURSIVE AddTasks(_, _, _)
AddTasks(plans, ts, len) ==
    IF len = 0 THEN plans ELSE AddTask(AddTasks(plans, ts, len - 1), ts[len])

\* all tasks of all plans, in the order print_general_info visits them
RECURSIVE PlanTasks(_, _)
PlanTasks(plans, len) ==
    IF len = 0 THEN <<>> ELSE PlanTasks(plans, len - 1) \o plans[len].v.tasks

\* team_capacity of print_general_info
TeamCapacity(plans) ==
    SumTo([n \in 1..Len(plans) |-> plans[n].v.wd * plans[n].v.vel], Len(plans))

\* hle_all and hle_assigned of print_general_info
HleAll(plans) ==
    LET ts == PlanTasks(plans, Len(plans))
    IN [c \in Categories |->
           SumTo([n \in 1..Len(ts) |->
                    IF ts[n].ratio_type = c THEN ts[n].hle ELSE 0], Len(ts))]

\* HleAssigned without the is_assigned test
HleAssigned_AllTasks(plans) ==
    LET ts == PlanTasks(plans, Len(plans))
    IN [c \in Categories |->
           SumTo([n \in 1..Len(ts) |->
                    IF ts[n].ratio_type = c THEN ts[n].hle ELSE 0], Len(ts))]

HleAssigned(plans) ==
    LET ts == PlanTasks(plans, Len(plans))
    IN [c \in Categories |->
           SumTo([n \in 1..Len(ts) |->
                    IF ts[n].ratio_type = c /\ ts[n].is_assigned
                    THEN ts[n].hle ELSE 0], Len(ts))]

WorkTotal(hle) == hle["Maintenance"] + hle["Bug"] + hle["Product"]

\* x / total * 100 of the report: total is not 0 where this is used
Percent(x, total) == (x * 100) \div total

\* print_general_info raises ZeroDivisionError when it divides by a zero total
GeneralInfoRaises(plans) ==
    WorkTotal(HleAssigned(plans)) = 0 \/ WorkTotal(HleAll(plans)) = 0

\* the table print_general_info prints
GeneralInfo(plans) ==
    LET all == HleAll(plans)
        assigned == HleAssigned(plans)
    IN [kind          |-> "general",
        team_capacity |-> TeamCapacity(plans),
        hle_all       |-> all,
        hle_assigned  |-> assigned,
        total_all     |-> WorkTotal(all) + all["Excluded"],
        total_assigned |-> WorkTotal(assigned) + assigned["Excluded"],
        pct_all       |-> [c \in Categories \ {"Excluded"} |->
                              Percent(all[c], WorkTotal(all))],
        pct_assigned  |-> [c \in Categories \ {"Excluded"} |->
                              Percent(assigned[c], WorkTotal(assigned))]]

\* sorted(keys): the strings of a set in ascending order
RECURSIVE Sorted(_)
Sorted(S) ==
    IF S = {} THEN <<>>
    ELSE LET least == CHOOSE x \in S : \A y \in S : ~StrLess(y, x)
         IN <<least>> \o Sorted(S \ {least})

\* sorted() of keys raises TypeError when None is compared with a str
SortRaises(S) == None \in S /\ Cardinality(S) > 1

\* the rows print_tasks_by_assignee prints: one per plan that has tasks, the
\* names in sorted order and UNASSIGNED last
AssigneeRows(plans) ==
    LET looked == Lookup(plans, UNASSIGNED)
        names == Sorted(DictKeys(looked) \ {UNASSIGNED}) \o <<UNASSIGNED>>
        shown == SelectSeq(names, LAMBDA u : DictGet(looked, u).tasks # <<>>)
    IN [n \in 1..Len(shown) |->
           [kind      |-> "assignee",
            user      |-> shown[n],
            total_hle |-> DictGet(looked, shown[n]).total_hle,
            capacity  |-> DictGet(looked, shown[n]).wd * DictGet(looked, shown[n]).vel,
            ntasks    |-> Len(DictGet(looked, shown[n]).tasks)]]

\* planning_validate with malformed --member values dropped, not rejected
planning_validate_IgnoreMalformed ==
    /\ UNCHANGED <<version_input, version_result, paging, updating>>
    /\ cmd = "planning" /\ pc = "start"
    /\ IF filter_id = "" \/ LoadRaises(team)
       THEN /\ pc' = "exit"
            /\ err' = "Exit(1)"
            /\ UNCHANGED <<team_config, parsed_overrides, team_members>>
       ELSE /\ team_config' = load_team_config(team)
            /\ parsed_overrides' =
                   parse_member_option(SelectSeq(member, LAMBDA v : ~ValueRaises(v)))
            /\ team_members' = apply_overrides(team_config', parsed_overrides')
            /\ pc' = "validated"
            /\ err' = ""
    /\ UNCHANGED <<cmd, issue, task, tracker, filter_id, team, member, client,
                   requests, tasks, i, tasks_by_assignee, buckets, totals,
                   table, out>>

\* lines 78-104: the filter id check, then the team is loaded and the
\* overrides are parsed and applied; any failure exits with code 1
planning_validate ==
    /\ UNCHANGED <<version_input, version_result, paging, updating>>
    /\ cmd = "planning" /\ pc = "start"
    /\ IF filter_id = "" \/ LoadRaises(team) \/ ParseRaises(member)
       THEN /\ pc' = "exit"
            /\ err' = "Exit(1)"
            /\ UNCHANGED <<team_config, parsed_overrides, team_members>>
       ELSE /\ team_config' = load_team_config(team)
            /\ parsed_overrides' = parse_member_option(member)
            /\ team_members' = apply_overrides(team_config', parsed_overrides')
            /\ pc' = "validated"
            /\ err' = ""
    /\ UNCHANGED <<cmd, issue, task, tracker, filter_id, team, member, client,
                   requests, tasks, i, tasks_by_assignee, buckets, totals,
                   table, out>>

\* lines 107-113: the client is constructed, the tasks are fetched and the
\* plans of the team members are created
planning_fetch ==
    /\ UNCHANGED <<version_input, version_result, paging, updating>>
    /\ cmd = "planning" /\ pc = "validated"
    /\ client' = "constructed"
    /\ requests' = requests + 1
    /\ IF FetchRaises(tracker) # ""
       THEN /\ pc' = "crashed"
            /\ err' = FetchRaises(tracker)
            /\ UNCHANGED <<tasks, tasks_by_assignee>>
       ELSE /\ tasks' = fetch_tasks(tracker)
            /\ tasks_by_assignee' = InitialPlans(team_members)
            /\ pc' = "aggregate"
            /\ err' = ""
    /\ i' = 0
    /\ UNCHANGED <<cmd, issue, task, tracker, filter_id, team, member,
                   team_config, parsed_overrides, team_members, buckets,
                   totals, table, out>>

\* lines 115-117: one task is added to the plan of its assignee
planning_loop ==
    /\ UNCHANGED <<version_input, version_result, paging, updating>>
    /\ cmd = "planning" /\ pc = "aggregate" /\ i < Len(tasks)
    /\ tasks_by_assignee' = AddTask(tasks_by_assignee, tasks[i + 1])
    /\ i' = i + 1
    /\ UNCHANGED <<pc, cmd, issue, task, tracker, filter_id, team, member,
                   team_config, parsed_overrides, team_members, client,
                   requests, tasks, buckets, totals, table, out, err>>

\* line 119: print_general_info; the capacity line is printed before the
\* percentages are computed
planning_general_info ==
    /\ UNCHANGED <<version_input, version_result, paging, updating>>
    /\ cmd = "planning" /\ pc = "aggregate" /\ i = Len(tasks)
    /\ IF GeneralInfoRaises(tasks_by_assignee)
       THEN /\ pc' = "crashed"
            /\ err' = "ZeroDivisionError"
            /\ out' = Append(out, [kind |-> "capacity",
                                   team_capacity |-> TeamCapacity(tasks_by_assignee)])
       ELSE /\ pc' = "general"
            /\ err' = ""
            /\ out' = out \o <<[kind |-> "capacity",
                                team_capacity |-> TeamCapacity(tasks_by_assignee)],
                               GeneralInfo(tasks_by_assignee)>>
    /\ UNCHANGED <<cmd, issue, task, tracker, filter_id, team, member,
                   team_config, parsed_overrides, team_members, client,
                   requests, tasks, i, tasks_by_assignee, buckets, totals,
                   table>>

\* line 120: print_tasks_by_assignee; its lookup of UNASSIGNED inserts the plan
planning_tasks_by_assignee ==
    /\ UNCHANGED <<version_input, version_result, paging, updating>>
    /\ cmd = "planning" /\ pc = "general"
    /\ IF SortRaises(DictKeys(tasks_by_assignee))
       THEN /\ pc' = "crashed"
            /\ err' = "TypeError"
            /\ UNCHANGED <<tasks_by_assignee, out>>
       ELSE /\ tasks_by_assignee' = Lookup(tasks_by_assignee, UNASSIGNED)
            /\ out' = out \o AssigneeRows(tasks_by_assignee)
            /\ pc' = "done"
            /\ err' = ""
    /\ UNCHANGED <<cmd, issue, task, tracker, filter_id, team, member,
                   team_config, parsed_overrides, team_members, client,
                   requests, tasks, i, buckets, totals, table>>

NextPlanning ==
    \/ planning_validate
    \/ planning_fetch
    \/ planning_loop
    \/ planning_general_info
    \/ planning_tasks_by_assignee

-----------------------------------------------------------------------------
(* cli.py: ratio *)

NoFixVersion ==
    <<"N", "o", " ", "F", "i", "x", " ", "V", "e", "r", "s", "i", "o", "n">>

ZeroSums == [c \in Categories |-> 0]

\* the default value of the tasks defaultdict
EmptyBucket == [ratio |-> ZeroSums, time |-> ZeroSums, tasks |-> <<>>]

\* task.fix_version or "No Fix Version"
BucketKey(t) ==
    IF t.fix_version = None \/ t.fix_version = <<>> THEN NoFixVersion
    ELSE t.fix_version

\* one iteration of the aggregation loop of ratio
AddToBucket(bs, t) ==
    LET key == BucketKey(t)
        data == IF DictHas(bs, key) THEN DictGet(bs, key) ELSE EmptyBucket
    IN DictSet(bs, key,
               [tasks |-> Append(data.tasks, t),
                ratio |-> [data.ratio EXCEPT ![t.ratio_type] = @ + t.hle],
                time  |-> [data.time EXCEPT ![t.ratio_type] = @ + t.time_spent]])

\* ProductOf without the Bug category
ProductOf_WithoutBug(data) == data.ratio["Product"]

\* the figures of one bucket
MaintenanceOf(data) == data.ratio["Maintenance"]

ProductOf(data) == data.ratio["Product"] + data.ratio["Bug"]
ExcludedOf(data) == data.ratio["Excluded"]
TimeMaintenanceOf(data) == data.time["Maintenance"]
TimeProductOf(data) == data.time["Product"] + data.time["Bug"]

\* SortedByAssignee without the sort: the tasks in fetch order
SortedByAssignee_FetchOrder(ts, len) == SubSeq(ts, 1, len)

\* sorted(ts, key=assignee): stable insertion after the last task whose
\* assignee is not greater
RECURSIVE SortedByAssignee(_, _)
SortedByAssignee(ts, len) ==
    IF len = 0 THEN <<>>
    ELSE LET before == SortedByAssignee(ts, len - 1)
             t == ts[len]
             pos == Cardinality({n \in 1..Len(before) :
                                    ~StrLess(t.assignee, before[n].assignee)})
         IN SubSeq(before, 1, pos) \o <<t>> \o SubSeq(before, pos + 1, Len(before))

\* comparing None with anything raises TypeError
SortByAssigneeRaises(ts) ==
    Len(ts) > 1 /\ \E n \in 1..Len(ts) : ts[n].assignee = None

\* team_config.working_days_per_sprint: release -> total working days
HasWorkingDays(config, fix_version) ==
    DictHas(config.working_days_per_sprint, fix_version)

WorkingDaysTotal(config, fix_version) ==
    DictGet(config.working_days_per_sprint, fix_version)

NoEfficiency == [present |-> FALSE, load |-> 0, working_days |-> 0]

\* the exception the report of one bucket raises ("" if none)
BucketRaises(config, fix_version, data) ==
    IF SortByAssigneeRaises(data.tasks) THEN "TypeError"
    ELSE IF MaintenanceOf(data) + ProductOf(data) = 0 THEN "ZeroDivisionError"
    ELSE IF TimeMaintenanceOf(data) + TimeProductOf(data) = 0
    THEN "ZeroDivisionError"
    ELSE IF /\ HasWorkingDays(config, fix_version)
            /\ WorkingDaysTotal(config, fix_version) = 0
    THEN "ZeroDivisionError"
    ELSE ""

\* the task rows of one bucket
TaskRows(fix_version, data) ==
    LET ts == SortedByAssignee(data.tasks, Len(data.tasks))
    IN [n \in 1..Len(ts) |->
           [kind |-> "task", fix_version |-> fix_version, key |-> ts[n].key,
            assignee |-> ts[n].assignee]]

\* the summary row of one bucket (when nothing raises)
BucketRow(config, fix_version, data) ==
    LET total == MaintenanceOf(data) + ProductOf(data)
        time_total == TimeMaintenanceOf(data) + TimeProductOf(data)
    IN [kind                 |-> "bucket",
        fix_version          |-> fix_version,
        maintenance          |-> MaintenanceOf(data),
        product              |-> ProductOf(data),
        excluded             |-> ExcludedOf(data),
        pct_maintenance      |-> Percent(MaintenanceOf(data), total),
        pct_product          |-> Percent(ProductOf(data), total),
        time_pct_maintenance |-> Percent(TimeMaintenanceOf(data), time_total),
        time_pct_product     |-> Percent(TimeProductOf(data), time_total),
        efficiency           |->
            IF HasWorkingDays(config, fix_version)
            THEN [present |-> TRUE, load |-> total + ExcludedOf(data),
                  working_days |-> WorkingDaysTotal(config, fix_version)]
            ELSE NoEfficiency]

ZeroTotals ==
    [maintenance |-> 0, product |-> 0, excluded |-> 0,
     time_maintenance |-> 0, time_product |-> 0]

AddTotals(tot, data) ==
    [maintenance      |-> tot.maintenance + MaintenanceOf(data),
     product          |-> tot.product + ProductOf(data),
     excluded         |-> tot.excluded + ExcludedOf(data),
     time_maintenance |-> tot.time_maintenance + TimeMaintenanceOf(data),
     time_product     |-> tot.time_product + TimeProductOf(data)]

TotalsRaise(tot) ==
    tot.maintenance + tot.product = 0 \/ tot.time_maintenance + tot.time_product = 0

TotalRow(tot) ==
    [kind                 |-> "total",
     maintenance          |-> tot.maintenance,
     product              |-> tot.product,
     excluded             |-> tot.excluded,
     pct_maintenance      |-> Percent(tot.maintenance, tot.maintenance + tot.product),
     pct_product          |-> Percent(tot.product, tot.maintenance + tot.product),
     time_pct_maintenance |->
         Percent(tot.time_maintenance, tot.time_maintenance + tot.time_product),
     time_pct_product     |->
         Percent(tot.time_product, tot.time_maintenance + tot.time_product)]

\* lines 150-164: the filter id check, then the team configuration is loaded
ratio_validate ==
    /\ UNCHANGED <<version_input, version_result, paging, updating>>
    /\ cmd = "ratio" /\ pc = "start"
    /\ IF filter_id = ""
       THEN pc' = "exit" /\ err' = "Exit(1)" /\ UNCHANGED team_config
       ELSE IF LoadRaises(team)
       THEN pc' = "crashed" /\ err' = "ValidationError" /\ UNCHANGED team_config
       ELSE pc' = "validated" /\ err' = "" /\ team_config' = load_team_config(team)
    /\ UNCHANGED <<cmd, issue, task, tracker, filter_id, team, member,
                   parsed_overrides, team_members, client, requests, tasks, i,
                   tasks_by_assignee, buckets, totals, table, out>>

\* lines 165-166: the client is constructed and the tasks are fetched
ratio_fetch ==
    /\ UNCHANGED <<version_input, version_result, paging, updating>>
    /\ cmd = "ratio" /\ pc = "validated"
    /\ client' = "constructed"
    /\ requests' = requests + 1
    /\ IF FetchRaises(tracker) # ""
       THEN pc' = "crashed" /\ err' = FetchRaises(tracker) /\ UNCHANGED tasks
       ELSE pc' = "aggregate" /\ err' = "" /\ tasks' = fetch_tasks(tracker)
    /\ i' = 0
    /\ UNCHANGED <<cmd, issue, task, tracker, filter_id, team, member,
                   team_config, parsed_overrides, team_members,
                   tasks_by_assignee, buckets, totals, table, out>>

\* lines 167-170: one task is added to the bucket of its fix version
ratio_loop ==
    /\ UNCHANGED <<version_input, version_result, paging, updating>>
    /\ cmd = "ratio" /\ pc = "aggregate" /\ i < Len(tasks)
    /\ buckets' = AddToBucket(buckets, tasks[i + 1])
    /\ i' = i + 1
    /\ UNCHANGED <<pc, cmd, issue, task, tracker, filter_id, team, member,
                   team_config, parsed_overrides, team_members, client,
                   requests, tasks, tasks_by_assignee, totals, table, out, err>>

\* lines 172-186: the buckets are sorted by fix version, the totals start at 0
ratio_sort ==
    /\ UNCHANGED <<version_input, version_result, paging, updating>>
    /\ cmd = "ratio" /\ pc = "aggregate" /\ i = Len(tasks)
    /\ pc' = "report"
    /\ i' = 0
    /\ totals' = ZeroTotals
    /\ table' = <<>>
    /\ UNCHANGED <<cmd, issue, task, tracker, filter_id, team, member,
                   team_config, parsed_overrides, team_members, client,
                   requests, tasks, tasks_by_assignee, buckets, out, err>>

\* lines 188-265: the rows of the next bucket in sorted order
ratio_bucket ==
    /\ UNCHANGED <<version_input, version_result, paging, updating>>
    /\ cmd = "ratio" /\ pc = "report" /\ i < Len(buckets)
    /\ LET fix_version == Sorted(DictKeys(buckets))[i + 1]
           data == DictGet(buckets, fix_version)
           raised == BucketRaises(team_config, fix_version, data)
       IN /\ totals' = AddTotals(totals, data)
          /\ IF raised = "TypeError"
             THEN pc' = "crashed" /\ err' = raised /\ UNCHANGED <<table, i>>
             ELSE IF raised # ""
             THEN /\ pc' = "crashed"
                  /\ err' = raised
                  /\ table' = table \o TaskRows(fix_version, data)
                  /\ UNCHANGED i
             ELSE /\ table' = table \o TaskRows(fix_version, data)
                                \o <<BucketRow(team_config, fix_version, data)>>
                  /\ i' = i + 1
                  /\ UNCHANGED <<pc, err>>
    /\ UNCHANGED <<cmd, issue, task, tracker, filter_id, team, member,
                   team_config, parsed_overrides, team_members, client,
                   requests, tasks, tasks_by_assignee, buckets, out>>

\* lines 267-293: the grand totals row, then the table is printed
ratio_totals ==
    /\ UNCHANGED <<version_input, version_result, paging, updating>>
    /\ cmd = "ratio" /\ pc = "report" /\ i = Len(buckets)
    /\ IF TotalsRaise(totals)
       THEN pc' = "crashed" /\ err' = "ZeroDivisionError" /\ UNCHANGED <<table, out>>
       ELSE /\ table' = Append(table, TotalRow(totals))
            /\ out' = table'
            /\ pc' = "done"
            /\ err' = ""
    /\ UNCHANGED <<cmd, issue, task, tracker, filter_id, team, member,
                   team_config, parsed_overrides, team_members, client,
                   requests, tasks, i, tasks_by_assignee, buckets, totals>>

NextRatio ==
    \/ ratio_validate
    \/ ratio_fetch
    \/ ratio_loop
    \/ ratio_sort
    \/ ratio_bucket
    \/ ratio_totals

-----------------------------------------------------------------------------
(* main.py: the single-file predecessor of the commands, with its own Task, *)
(* its planning command and the sprint goal of _print_general_info         *)

Marek == <<"M", "a", "r", "e", "k">>
Pavel == <<"P", "a", "v", "e", "l">>
Ondrej == <<"O", "n", "d", "r", "e", "j">>

\* the exception Task.__init__ of main.py raises on this issue ("" if none)
MainTaskRaises(raw) ==
    IF raw.assignee.present /\ Split(NameKey(raw.assignee.displayName)) = <<>>
    THEN "IndexError"
    ELSE IF NumberRaises(raw.wsjf) THEN "ValueError"
    ELSE IF raw.fixVersions = <<>> THEN "IndexError"
    ELSE ""

\* Task.__init__ of main.py
MainTask(raw) ==
    [raised      |-> "",
     key         |-> raw.key,
     type        |-> raw.issuetype,
     assignee    |-> IF raw.assignee.present
                     THEN Split(raw.assignee.displayName)[1] ELSE UNASSIGNED,
     hle         |-> NumberOf(raw.hle),
     wsjf        |-> NumberOf(raw.wsjf),
     ratio_type  |-> LegacyRatioTypeOf(raw.labels),
     fix_version |-> LET name == MaxName(raw.fixVersions)
                     IN SubSeq(name, 1, IF Len(name) < 4 THEN Len(name) ELSE 4)]

\* SprintGoal with the tasks of the UNASSIGNED plan counted too
SprintGoal_WithUnassigned(plans) ==
    SumTo([n \in 1..Len(plans) |->
              SumTo([m \in 1..Len(plans[n].v.tasks) |-> plans[n].v.tasks[m].wsjf],
                    Len(plans[n].v.tasks))],
          Len(plans))

\* sprint_goal of _print_general_info
SprintGoal(plans) ==
    SumTo([n \in 1..Len(plans) |->
              IF plans[n].k # UNASSIGNED
              THEN SumTo([m \in 1..Len(plans[n].v.tasks) |-> plans[n].v.tasks[m].wsjf],
                         Len(plans[n].v.tasks))
              ELSE 0],
          Len(plans))

\* lines 209-217: the client is constructed, the tasks are fetched and the
\* plans of the three members and of UNASSIGNED are created
main_fetch ==
    /\ UNCHANGED <<paging, updating>>
    /\ cmd = "main" /\ pc = "start"
    /\ client' = "constructed"
    /\ requests' = requests + 1
    /\ LET kept == SelectSeq(tracker, LAMBDA raw : raw.issuetype # "Epic")
       IN IF \E n \in 1..Len(kept) : MainTaskRaises(kept[n]) # ""
          THEN /\ pc' = "crashed"
               /\ err' = MainTaskRaises(
                            kept[CHOOSE n \in 1..Len(kept) :
                                    /\ MainTaskRaises(kept[n]) # ""
                                    /\ \A j \in 1..(n - 1) :
                                           MainTaskRaises(kept[j]) = ""])
               /\ UNCHANGED <<tasks, tasks_by_assignee>>
          ELSE /\ tasks' = [n \in 1..Len(kept) |-> MainTask(kept[n])]
               /\ tasks_by_assignee' =
                      <<[k |-> Marek, v |-> MemberPlan(member[1][1], member[1][2])],
                        [k |-> Pavel, v |-> MemberPlan(member[3][1], member[3][2])],
                        [k |-> Ondrej, v |-> MemberPlan(member[2][1], member[2][2])],
                        [k |-> UNASSIGNED, v |-> MemberPlan(0, 0)]>>
               /\ pc' = "aggregate"
               /\ err' = ""
    /\ i' = 0
    /\ UNCHANGED <<cmd, issue, task, tracker, filter_id, team, member,
                   team_config, parsed_overrides, team_members, buckets,
                   totals, table, out, version_input, version_result>>

\* lines 219-221: one task is added to the plan of its assignee; the dict
\* has no plan for an assignee outside the team
main_loop ==
    /\ UNCHANGED <<paging, updating>>
    /\ cmd = "main" /\ pc = "aggregate" /\ i < Len(tasks)
    /\ IF DictHas(tasks_by_assignee, tasks[i + 1].assignee)
       THEN /\ tasks_by_assignee' = AddTask(tasks_by_assignee, tasks[i + 1])
            /\ i' = i + 1
            /\ UNCHANGED <<pc, err>>
       ELSE /\ pc' = "crashed"
            /\ err' = "KeyError"
            /\ UNCHANGED <<tasks_by_assignee, i>>
    /\ UNCHANGED <<cmd, issue, task, tracker, filter_id, team, member,
                   team_config, parsed_overrides, team_members, client,
                   requests, tasks, buckets, totals, table, out,
                   version_input, version_result>>

\* line 223: _print_general_info
main_general_info ==
    /\ UNCHANGED <<paging, updating>>
    /\ cmd = "main" /\ pc = "aggregate" /\ i = Len(tasks)
    /\ LET hle == HleAll(tasks_by_assignee)
           total == hle["Maintenance"] + hle["Product"]
       IN IF total = 0
          THEN pc' = "crashed" /\ err' = "ZeroDivisionError" /\ UNCHANGED out
          ELSE /\ pc' = "general"
               /\ err' = ""
               /\ out' = Append(out,
                      [kind            |-> "general",
                       maintenance     |-> hle["Maintenance"],
                       product         |-> hle["Product"],
                       pct_maintenance |-> Percent(hle["Maintenance"], total),
                       pct_product     |-> Percent(hle["Product"], total),
                       total           |-> total + hle["Excluded"],
                       team_capacity   |-> TeamCapacity(tasks_by_assignee),
                       sprint_goal     |-> SprintGoal(tasks_by_assignee)])
    /\ UNCHANGED <<cmd, issue, task, tracker, filter_id, team, member,
                   team_config, parsed_overrides, team_members, client,
                   requests, tasks, i, tasks_by_assignee, buckets, totals,
                   table, version_input, version_result>>

\* line 224: _print_tasks_by_assignee
main_tasks_by_assignee ==
    /\ UNCHANGED <<paging, updating>>
    /\ cmd = "main" /\ pc = "general"
    /\ out' = out \o AssigneeRows(tasks_by_assignee)
    /\ pc' = "done"
    /\ UNCHANGED <<cmd, issue, task, tracker, filter_id, team, member,
                   team_config, parsed_overrides, team_members, client,
                   requests, tasks, i, tasks_by_assignee, buckets, totals,
                   table, err, version_input, version_result>>

NextMain ==
    \/ main_fetch
    \/ main_loop
    \/ main_general_info
    \/ main_tasks_by_assignee

-----------------------------------------------------------------------------
(* Inputs *)

\* bounds of the model
MaxLabels == 2
MaxTasks == 3
MaxMembers == 2
MaxOverrides == 1
MaxLen == 4
MaxPages == 3
MaxRequests == 4

SeqsUpTo(S, len) == UNION {[1..m -> S] : m \in 0..len}

Alice == <<"A", "l">>
Bob == <<"B", "o">>
Cid == <<"C", "i">>
al == <<"a", "l">>
bo == <<"b", "o">>
ci == <<"c", "i">>

V612 == <<"6", ".", "1", "2">>
V613 == <<"6", ".", "1", "3">>
V69 == <<"6", ".", "9">>
V6120 == <<"6", ".", "1", "2", ".", "0", " ", "A">>
V6130 == <<"6", ".", "1", "3", ".", "0">>

\* the version name of the docstring of _extract_version_number
V6120Dates ==
    <<"6", ".", "1", "2", ".", "0", " ", "(", "1", "6", ".", " ", "9", ".", " ",
      "-", " ", "2", "9", ".", " ", "9", ")">>

\* version names: None, the documented one, and every string of up to MaxLen
\* characters over blank, dot and two digits
VersionNames ==
    {None, V6120Dates} \cup SeqsUpTo({" ", ".", "6", "7"}, MaxLen)

Labels == {"RatioExcluded", "Bughunting", "Maintenance", "DevOps", "UX"}

\* an issue of the search response: the entries named in absent are not in
\* the JSON object, those named in null are JSON null
BaseIssue ==
    [key |-> "KNJ-0", summary |-> "Title", issuetype |-> "Story",
     status |-> "Open", assignee |-> NoAssignee, hle |-> Null, wsjf |-> Null,
     tl1 |-> NoAssignee, tl2 |-> NoAssignee, labels |-> {},
     fixVersions |-> <<>>, sprint |-> <<>>, timeSpentSeconds |-> 0,
     absent |-> {}, null |-> {}]

\* lists of version objects (fix versions, sprints), given by their names
VersionLists ==
    {<<>>, <<V6120>>, <<V612, V69>>, <<V69, V612>>, <<V612, V6120>>,
     <<<<" ">>>>, <<None>>, <<V613, None>>}

\* tech lead fields: no value, a user without display name, blank names,
\* one word, two words, padded words
TechLeads ==
    {NoAssignee, User(None), User(<<>>), User(<<" ">>), User(Alice),
     User(<<"a", "l", " ", "b", "o">>),
     User(<<" ", "c", "i", " ", " ", "x">>)}

\* the entries of an issue that may be missing, and those that may be null
OptionalEntries ==
    {"key", "summary", "issuetype", "status", "labels", "fixVersions",
     "sprint", "timetracking", "timeSpentSeconds"}

NullableEntries ==
    {"issuetype", "status", "labels", "fixVersions", "sprint", "timetracking"}

\* an issue with a value in every entry
FullIssue ==
    [BaseIssue EXCEPT !.key = "KNJ-9", !.assignee = User(Alice), !.hle = Num(2),
                      !.wsjf = Num(3), !.labels = {"Maintenance"},
                      !.fixVersions = <<V612>>, !.sprint = <<V613>>,
                      !.timeSpentSeconds = 5]

\* the raw issues classified one at a time
ClassifyIssues ==
    {[BaseIssue EXCEPT !.issuetype = ty, !.assignee = a, !.labels = ls,
                       !.hle = h, !.fixVersions = fv] :
        ty \in {"Bug", "Story"},
        a \in {NoAssignee, User(Alice), User(<<>>), User(UNASSIGNED), User(None)},
        ls \in {l \in SUBSET Labels : Cardinality(l) <= MaxLabels},
        h \in {Null, Num(0), Num(2)},
        fv \in {<<>>, <<V6120>>, <<V612, V69>>}}
    \cup {[BaseIssue EXCEPT !.fixVersions = fv, !.sprint = sp] :
             fv \in VersionLists, sp \in VersionLists}
    \cup {[FullIssue EXCEPT !.absent = ab, !.null = nu, !.hle = h, !.wsjf = w] :
             ab \in {e \in SUBSET OptionalEntries : Cardinality(e) <= 1},
             nu \in {e \in SUBSET NullableEntries : Cardinality(e) <= 1},
             h \in {Null, Num(2), NonNumeric},
             w \in {Null, Num(3), NonNumeric}}
    \cup {[BaseIssue EXCEPT !.tl1 = t1, !.tl2 = t2] :
             t1 \in TechLeads, t2 \in TechLeads}

Member(name, nickname, wd, vel) ==
    [name |-> name, nickname |-> nickname, wd |-> wd, vel |-> vel]

\* members of the YAML file: valid ones (two share a nickname, two a name,
\* one is padded with blanks) and ones that break one constraint each
RawMembers ==
    {Member(Alice, al, 5, 1), Member(Bob, bo, 10, 2), Member(Cid, al, 7, 1),
     Member(Alice, ci, 3, 1), Member(<<"C", "i", " ">>, <<" ", "c", "i">>, 4, 1),
     Member(Alice, al, 0, 1), Member(Alice, al, 11, 1), Member(Alice, al, 5, 0),
     Member(<<>>, al, 5, 1), Member(<<" ">>, al, 5, 1), Member(Alice, <<" ">>, 5, 1)}

RawConfig(members, budget) ==
    [members |-> members, working_days_per_sprint |-> budget]

RawConfigs == {RawConfig(ms, <<>>) : ms \in SeqsUpTo(RawMembers, MaxMembers)}

TeamAB == <<Member(Alice, al, 5, 1), Member(Bob, bo, 10, 2)>>

\* the team files given to the commands
CmdConfigs ==
    {RawConfig(TeamAB, <<>>),
     RawConfig(<<>>, <<>>),
     RawConfig(<<Member(Alice, al, 0, 1)>>, <<>>),
     RawConfig(<<Member(Alice, al, 5, 1), Member(Cid, al, 7, 1)>>, <<>>)}

\* --member values: well-formed ones and malformed ones
OptionValues ==
    {<<"a", "l", "=", "7", ",", "3">>,
     <<"b", "o", "=", "0", ",", "1">>,
     <<"a", "l", "=", "1", "1", ",", "1">>,
     <<"z", "z", "=", "7", ",", "3">>,
     <<" ", "a", "l", " ", "=", "2", ",", "-", "1">>,
     <<"a", "l", "=", "7">>,
     <<"a", "l", "=", "x", ",", "3">>,
     <<"a", "l", "=", "7", ",", "3", ",", "1">>,
     <<"a", "l", "7", ",", "3">>}

OptionLists == SeqsUpTo(OptionValues, MaxOverrides)

\* the issues of the planning filter
PlanIssues ==
    {[BaseIssue EXCEPT !.key = "KNJ-1", !.assignee = User(Alice),
                       !.hle = Num(2), !.wsjf = Num(3)],
     [BaseIssue EXCEPT !.key = "KNJ-2", !.assignee = User(Alice),
                       !.hle = Num(1), !.labels = {"Maintenance"}],
     [BaseIssue EXCEPT !.key = "KNJ-3", !.issuetype = "Bug", !.hle = Num(1),
                       !.wsjf = Num(2)],
     [BaseIssue EXCEPT !.key = "KNJ-4", !.assignee = User(Cid), !.hle = Num(3)],
     [BaseIssue EXCEPT !.key = "KNJ-5", !.assignee = User(Bob), !.hle = Num(2),
                       !.labels = {"RatioExcluded"}],
     [BaseIssue EXCEPT !.key = "KNJ-6", !.assignee = User(Bob)],
     [BaseIssue EXCEPT !.key = "KNJ-7", !.assignee = User(UNASSIGNED),
                       !.hle = Num(1)],
     [BaseIssue EXCEPT !.key = "KNJ-8", !.issuetype = "Epic", !.hle = Num(4)]}

\* the issues of the ratio filter
RatioIssues ==
    {[BaseIssue EXCEPT !.key = "KNJ-1", !.assignee = User(Bob), !.hle = Num(2),
                       !.labels = {"Maintenance"}, !.fixVersions = <<V6120>>,
                       !.timeSpentSeconds = 3],
     [BaseIssue EXCEPT !.key = "KNJ-2", !.assignee = User(Alice),
                       !.issuetype = "Bug", !.hle = Num(1),
                       !.fixVersions = <<V612>>, !.timeSpentSeconds = 1],
     [BaseIssue EXCEPT !.key = "KNJ-3", !.hle = Num(3),
                       !.labels = {"RatioExcluded"}, !.fixVersions = <<V6130>>,
                       !.timeSpentSeconds = 2],
     [BaseIssue EXCEPT !.key = "KNJ-4", !.assignee = User(Bob), !.hle = Num(2),
                       !.timeSpentSeconds = 2],
     [BaseIssue EXCEPT !.key = "KNJ-5", !.assignee = User(Alice),
                       !.fixVersions = <<V613>>],
     [BaseIssue EXCEPT !.key = "KNJ-6", !.assignee = User(Alice), !.hle = Num(1),
                       !.labels = {"DevOps"}, !.fixVersions = <<V69, V613>>]}

\* the issues of the planning filter of main.py
MainIssues ==
    {[BaseIssue EXCEPT !.key = "KNJ-1", !.assignee = User(Marek \o <<" ", "B">>),
                       !.hle = Num(2), !.wsjf = Num(3), !.fixVersions = <<V612>>],
     [BaseIssue EXCEPT !.key = "KNJ-2", !.assignee = User(Pavel), !.hle = Num(1),
                       !.wsjf = Num(2), !.labels = {"Maintenance"},
                       !.fixVersions = <<V612>>],
     [BaseIssue EXCEPT !.key = "KNJ-3", !.hle = Num(1), !.wsjf = Num(5),
                       !.fixVersions = <<V613>>],
     [BaseIssue EXCEPT !.key = "KNJ-4", !.assignee = User(Cid), !.hle = Num(3),
                       !.wsjf = Num(1), !.fixVersions = <<V612>>],
     [BaseIssue EXCEPT !.key = "KNJ-5", !.assignee = User(Ondrej), !.hle = Num(2),
                       !.wsjf = Num(4), !.labels = {"RatioExcluded"},
                       !.fixVersions = <<V6130>>],
     [BaseIssue EXCEPT !.key = "KNJ-6", !.issuetype = "Epic", !.wsjf = Num(7),
                       !.fixVersions = <<V612>>],
     [BaseIssue EXCEPT !.key = "KNJ-7", !.assignee = User(Marek), !.hle = Num(1),
                       !.wsjf = Num(1)]}

\* the issues of the k-th page of the search
PageIssues(k) ==
    IF k = 1 THEN <<[BaseIssue EXCEPT !.key = "KNJ-1", !.hle = Num(2)],
                    [BaseIssue EXCEPT !.key = "KNJ-8", !.issuetype = "Epic"]>>
    ELSE IF k = 2 THEN <<[BaseIssue EXCEPT !.key = "KNJ-2", !.issuetype = "Bug"]>>
    ELSE IF k = 3 THEN <<[BaseIssue EXCEPT !.key = "KNJ-9", !.issuetype = "Epic"],
                         [BaseIssue EXCEPT !.key = "KNJ-3", !.assignee = User(Bob)]>>
    ELSE <<>>

\* what the search endpoint may serve: up to MaxPages pages, each answered
\* with status 200 or 500 and with the token of any page, or with none (0)
ServerPages ==
    UNION {{[k \in 1..len |-> [status |-> st[k], issues |-> PageIssues(k),
                               nextPageToken |-> tk[k]]] :
               st \in [1..len -> {200, 500}], tk \in [1..len -> 0..len]} :
           len \in 1..MaxPages}

\* the issues of the filter of update_fix_versions
UpdateIssues ==
    {[BaseIssue EXCEPT !.key = "KNJ-1", !.assignee = User(Alice)],
     [BaseIssue EXCEPT !.key = "KNJ-2", !.fixVersions = <<V6120>>],
     [BaseIssue EXCEPT !.key = "KNJ-3", !.issuetype = "Bug"],
     [BaseIssue EXCEPT !.key = "KNJ-8", !.issuetype = "Epic"]}

\* the versions of the project, as lists of id and name
ProjectVersions ==
    {<<>>,
     <<[id |-> <<"7", "1">>, name |-> V6120]>>,
     <<[id |-> <<"7", "1">>, name |-> V6120], [id |-> <<"7", "2">>, name |-> V6130],
       [id |-> <<"7", "3">>, name |-> V613]>>}

\* working days budgets of the team file
Budgets ==
    {<<>>,
     <<[k |-> V612, v |-> 4]>>,
     <<[k |-> V612, v |-> 0]>>,
     <<[k |-> V612, v |-> 4], [k |-> NoFixVersion, v |-> 2]>>}

-----------------------------------------------------------------------------
(* jira_service.py: fetch_tasks, request by request *)

\* the page the search endpoint serves for a token (the first page for none)
ResponseTo(token) == pages[IF token = 0 THEN 1 ELSE token]

\* lines 27-38: the filter is read, the list and the token are initialised
fetch_tasks_start ==
    /\ cmd = "fetch" /\ pc = "start"
    /\ client' = "constructed"
    /\ all_issues' = <<>>
    /\ next_page_token' = 0
    /\ pc' = "paging"
    /\ UNCHANGED <<cmd, issue, task, tracker, filter_id, team, member,
                   team_config, parsed_overrides, team_members, requests,
                   tasks, i, tasks_by_assignee, buckets, totals, table, out,
                   err, version_input, version_result, pages, sent, updating>>

\* lines 40-63: one request of the while loop, sent with the token of the
\* last response; a status other than 200 raises, a response without token
\* ends the loop
fetch_tasks_page ==
    /\ cmd = "fetch" /\ pc = "paging" /\ requests < MaxRequests
    /\ requests' = requests + 1
    /\ sent' = Append(sent, next_page_token)
    /\ LET response == ResponseTo(next_page_token)
       IN IF response.status # 200
          THEN /\ pc' = "failed"
               /\ err' = "Exception"
               /\ UNCHANGED <<all_issues, next_page_token>>
          ELSE /\ all_issues' = all_issues \o response.issues
               /\ next_page_token' = response.nextPageToken
               /\ pc' = IF response.nextPageToken = 0 THEN "fetched" ELSE "paging"
               /\ UNCHANGED err
    /\ UNCHANGED <<cmd, issue, task, tracker, filter_id, team, member,
                   team_config, parsed_overrides, team_members, client,
                   tasks, i, tasks_by_assignee, buckets, totals, table, out,
                   version_input, version_result, pages, updating>>

\* lines 65-149: a Task is made of every received issue that is not an Epic
fetch_tasks_build ==
    /\ cmd = "fetch" /\ pc = "fetched"
    /\ IF FetchRaises(all_issues) # ""
       THEN pc' = "failed" /\ err' = FetchRaises(all_issues) /\ UNCHANGED tasks
       ELSE pc' = "done" /\ tasks' = fetch_tasks(all_issues) /\ UNCHANGED err
    /\ UNCHANGED <<cmd, issue, task, tracker, filter_id, team, member,
                   team_config, parsed_overrides, team_members, client,
                   requests, i, tasks_by_assignee, buckets, totals, table,
                   out, version_input, version_result, paging, updating>>

NextFetch ==
    \/ fetch_tasks_start
    \/ fetch_tasks_page
    \/ fetch_tasks_build

-----------------------------------------------------------------------------
(* cli.py: update_fix_versions *)

\* JiraClient.find_version_starting_with: the id of the first version of the
\* project whose name starts with the prefix, None when there is none
find_version_starting_with(project_versions, prefix) ==
    LET starts(name) == /\ Len(prefix) <= Len(name)
                        /\ SubSeq(name, 1, Len(prefix)) = prefix
    IN IF \E n \in 1..Len(project_versions) : starts(project_versions[n].name)
       THEN project_versions[CHOOSE n \in 1..Len(project_versions) :
                /\ starts(project_versions[n].name)
                /\ \A m \in 1..(n - 1) : ~starts(project_versions[m].name)].id
       ELSE None

\* JiraClient.update_issue_fix_version raises when the server refuses the
\* update of this issue
UpdateRaises(key) == key \in failing

\* TasksWithoutFixVersion with every task selected
TasksWithoutFixVersion_AllTasks(ts) == ts

\* tasks_without_fix_version
TasksWithoutFixVersion(ts) ==
    SelectSeq(ts, LAMBDA t : t.fix_version = None \/ t.fix_version = <<>>)

\* lines 324-337: the filter id check, the client and the fetch, and the
\* selection of the tasks without fix version
update_start ==
    /\ cmd = "update" /\ pc = "start"
    /\ IF filter_id = ""
       THEN /\ pc' = "exit"
            /\ err' = "Exit(1)"
            /\ UNCHANGED <<client, requests, tasks, out>>
       ELSE /\ client' = "constructed"
            /\ requests' = requests + 1
            /\ IF FetchRaises(tracker) # ""
               THEN /\ pc' = "crashed"
                    /\ err' = FetchRaises(tracker)
                    /\ UNCHANGED <<tasks, out>>
               ELSE /\ tasks' = fetch_tasks(tracker)
                    /\ err' = ""
                    /\ IF TasksWithoutFixVersion(tasks') = <<>>
                       THEN /\ pc' = "done"
                            /\ out' = Append(out, [kind |-> "all set"])
                       ELSE /\ pc' = "find"
                            /\ out' = Append(out,
                                   [kind |-> "found",
                                    count |-> Len(TasksWithoutFixVersion(tasks'))])
    /\ UNCHANGED <<cmd, issue, task, tracker, filter_id, team, member,
                   team_config, parsed_overrides, team_members, i,
                   tasks_by_assignee, buckets, totals, table, version_input,
                   version_result, paging, updating>>

\* lines 342-348: the version of the sprint is looked up
update_find ==
    /\ cmd = "update" /\ pc = "find"
    /\ version_id' = find_version_starting_with(versions, sprint)
    /\ IF version_id' = None
       THEN pc' = "exit" /\ err' = "Exit(1)"
       ELSE pc' = "confirm" /\ UNCHANGED err
    /\ UNCHANGED <<cmd, issue, task, tracker, filter_id, team, member,
                   team_config, parsed_overrides, team_members, client,
                   requests, tasks, i, tasks_by_assignee, buckets, totals,
                   table, out, version_input, version_result, paging, sprint,
                   versions, confirm, failing, updates>>

\* lines 351-360: the tasks are listed and the user is asked
update_confirm ==
    /\ cmd = "update" /\ pc = "confirm"
    /\ IF confirm
       THEN pc' = "updating" /\ UNCHANGED err
       ELSE pc' = "exit" /\ err' = "Exit(0)"
    /\ i' = 0
    /\ UNCHANGED <<cmd, issue, task, tracker, filter_id, team, member,
                   team_config, parsed_overrides, team_members, client,
                   requests, tasks, tasks_by_assignee, buckets, totals, table,
                   out, version_input, version_result, paging, updating>>

\* lines 364-369: one update attempt; an exception is printed and swallowed
update_issue ==
    /\ cmd = "update" /\ pc = "updating"
    /\ i < Len(TasksWithoutFixVersion(tasks))
    /\ LET t == TasksWithoutFixVersion(tasks)[i + 1]
       IN /\ updates' = Append(updates, [key |-> t.key, version_id |-> version_id])
          /\ out' = Append(out, [kind |-> "update", key |-> t.key,
                                  ok |-> ~UpdateRaises(t.key)])
    /\ i' = i + 1
    /\ UNCHANGED <<pc, cmd, issue, task, tracker, filter_id, team, member,
                   team_config, parsed_overrides, team_members, client,
                   requests, tasks, tasks_by_assignee, buckets, totals, table,
                   err, version_input, version_result, paging, sprint,
                   versions, confirm, failing, version_id>>

\* line 371: the closing message
update_finish ==
    /\ cmd = "update" /\ pc = "updating"
    /\ i = Len(TasksWithoutFixVersion(tasks))
    /\ pc' = "done"
    /\ out' = Append(out, [kind |-> "updated", count |-> i])
    /\ UNCHANGED <<cmd, issue, task, tracker, filter_id, team, member,
                   team_config, parsed_overrides, team_members, client,
                   requests, tasks, i, tasks_by_assignee, buckets, totals,
                   table, err, version_input, version_result, paging,
                   updating>>

NextUpdate ==
    \/ update_start
    \/ update_find
    \/ update_confirm
    \/ update_issue
    \/ update_finish

-----------------------------------------------------------------------------
(* The specifications *)

\* no paged search and no fix version update is part of the run
Offline ==
    /\ pages = <<>>
    /\ sprint = <<>>
    /\ versions = <<>>
    /\ confirm = FALSE
    /\ failing = {}

\* the state before a command or function has run
Fresh ==
    /\ pc = "start"
    /\ task = NoTask
    /\ team_config = NoConfig
    /\ parsed_overrides = <<>>
    /\ team_members = <<>>
    /\ client = "none"
    /\ requests = 0
    /\ tasks = <<>>
    /\ i = 0
    /\ tasks_by_assignee = <<>>
    /\ buckets = <<>>
    /\ totals = ZeroTotals
    /\ table = <<>>
    /\ out = <<>>
    /\ err = ""
    /\ version_result = <<"unset">>
    /\ next_page_token = 0
    /\ all_issues = <<>>
    /\ sent = <<>>
    /\ version_id = None
    /\ updates = <<>>

(* Task.from_raw_issue on one issue *)

InitClassify ==
    /\ version_input = None
    /\ Offline
    /\ cmd = "classify"
    /\ issue \in ClassifyIssues
    /\ tracker = <<>> /\ filter_id = "" /\ team = NoConfig /\ member = <<>>
    /\ Fresh

Classify ==
    /\ UNCHANGED <<version_input, version_result, paging, updating>>
    /\ cmd = "classify" /\ pc = "start"
    /\ task' = from_raw_issue(issue)
    /\ err' = task'.raised
    /\ pc' = "done"
    /\ UNCHANGED <<cmd, issue, tracker, filter_id, team, member, team_config,
                   parsed_overrides, team_members, client, requests, tasks, i,
                   tasks_by_assignee, buckets, totals, table, out>>

NextClassify == Classify

SpecClassify == InitClassify /\ [][NextClassify]_vars

(* Task._extract_version_number on one version name *)

InitExtract ==
    /\ cmd = "extract"
    /\ version_input \in VersionNames
    /\ Offline
    /\ issue = BaseIssue
    /\ tracker = <<>> /\ filter_id = "" /\ team = NoConfig /\ member = <<>>
    /\ Fresh

Extract ==
    /\ UNCHANGED <<paging, updating>>
    /\ cmd = "extract" /\ pc = "start"
    /\ IF ExtractRaises(version_input)
       THEN pc' = "crashed" /\ err' = "IndexError" /\ UNCHANGED version_result
       ELSE /\ pc' = "done"
            /\ err' = ""
            /\ version_result' = _extract_version_number(version_input)
    /\ UNCHANGED <<cmd, issue, task, tracker, filter_id, team, member,
                   team_config, parsed_overrides, team_members, client,
                   requests, tasks, i, tasks_by_assignee, buckets, totals,
                   table, out, version_input>>

NextExtract == Extract

SpecExtract == InitExtract /\ [][NextExtract]_vars

(* load_team_config, parse_member_option and apply_overrides *)

InitTeam ==
    /\ version_input = None
    /\ Offline
    /\ cmd = "team"
    /\ team \in RawConfigs
    /\ member \in OptionLists
    /\ issue = BaseIssue /\ tracker = <<>> /\ filter_id = ""
    /\ Fresh

TeamLoad ==
    /\ UNCHANGED <<version_input, version_result, paging, updating>>
    /\ cmd = "team" /\ pc = "start"
    /\ IF LoadRaises(team)
       THEN pc' = "failed" /\ err' = "ValidationError" /\ UNCHANGED team_config
       ELSE pc' = "loaded" /\ err' = "" /\ team_config' = load_team_config(team)
    /\ UNCHANGED <<cmd, issue, task, tracker, filter_id, team, member,
                   parsed_overrides, team_members, client, requests, tasks, i,
                   tasks_by_assignee, buckets, totals, table, out>>

TeamParse ==
    /\ UNCHANGED <<version_input, version_result, paging, updating>>
    /\ cmd = "team" /\ pc = "loaded"
    /\ IF ParseRaises(member)
       THEN pc' = "failed" /\ err' = "BadParameter" /\ UNCHANGED parsed_overrides
       ELSE /\ pc' = "parsed"
            /\ err' = ""
            /\ parsed_overrides' = parse_member_option(member)
    /\ UNCHANGED <<cmd, issue, task, tracker, filter_id, team, member,
                   team_config, team_members, client, requests, tasks, i,
                   tasks_by_assignee, buckets, totals, table, out>>

TeamApply ==
    /\ UNCHANGED <<version_input, version_result, paging, updating>>
    /\ cmd = "team" /\ pc = "parsed"
    /\ team_members' = apply_overrides(team_config, parsed_overrides)
    /\ pc' = "done"
    /\ UNCHANGED <<cmd, issue, task, tracker, filter_id, team, member,
                   team_config, parsed_overrides, client, requests, tasks, i,
                   tasks_by_assignee, buckets, totals, table, out, err>>

NextTeam == TeamLoad \/ TeamParse \/ TeamApply

SpecTeam == InitTeam /\ [][NextTeam]_vars

(* the planning command *)

InitPlanning ==
    /\ version_input = None
    /\ Offline
    /\ cmd = "planning"
    /\ issue = BaseIssue
    /\ \/ /\ filter_id \in {"", "10042"}
          /\ team \in CmdConfigs
          /\ member \in OptionLists
          /\ tracker = <<[BaseIssue EXCEPT !.assignee = User(Alice), !.hle = Num(2)]>>
       \/ /\ filter_id = "10042"
          /\ team = RawConfig(TeamAB, <<>>)
          /\ member = <<>>
          /\ tracker \in SeqsUpTo(PlanIssues, MaxTasks)
    /\ Fresh

SpecPlanning == InitPlanning /\ [][NextPlanning]_vars

(* the ratio command *)

InitRatio ==
    /\ version_input = None
    /\ Offline
    /\ cmd = "ratio"
    /\ issue = BaseIssue
    /\ member = <<>>
    /\ \/ /\ filter_id \in {"", "10043"}
          /\ team \in CmdConfigs
          /\ tracker = <<[BaseIssue EXCEPT !.hle = Num(2), !.timeSpentSeconds = 1]>>
       \/ /\ filter_id = "10043"
          /\ team \in {RawConfig(TeamAB, b) : b \in Budgets}
          /\ tracker \in SeqsUpTo(RatioIssues, MaxTasks)
    /\ Fresh

SpecRatio == InitRatio /\ [][NextRatio]_vars

(* the planning command of main.py *)

InitMain ==
    /\ cmd = "main"
    /\ version_input = None
    /\ Offline
    /\ issue = BaseIssue
    /\ filter_id = "10042"
    /\ team = NoConfig
    /\ member = <<<<5, 1>>, <<10, 2>>, <<3, 1>>>>
    /\ tracker \in SeqsUpTo(MainIssues, MaxTasks)
    /\ Fresh

SpecMain == InitMain /\ [][NextMain]_vars

(* JiraClient.fetch_tasks against a paged search *)

InitFetch ==
    /\ cmd = "fetch"
    /\ version_input = None
    /\ issue = BaseIssue
    /\ filter_id = "10042"
    /\ team = NoConfig /\ member = <<>> /\ tracker = <<>>
    /\ pages \in ServerPages
    /\ sprint = <<>> /\ versions = <<>> /\ confirm = FALSE /\ failing = {}
    /\ Fresh

\* the while loop of fetch_tasks keeps running until it breaks or raises
SpecFetch == InitFetch /\ [][NextFetch]_vars /\ WF_vars(NextFetch)

(* the update_fix_versions command *)

InitUpdate ==
    /\ cmd = "update"
    /\ version_input = None
    /\ issue = BaseIssue
    /\ team = NoConfig /\ member = <<>>
    /\ pages = <<>>
    /\ filter_id \in {"", "10042"}
    /\ tracker \in SeqsUpTo(UpdateIssues, MaxTasks)
    /\ sprint = V613
    /\ versions \in ProjectVersions
    /\ confirm \in BOOLEAN
    /\ failing \in {{}, {"KNJ-1"}, {"KNJ-1", "KNJ-3"}}
    /\ Fresh

SpecUpdate == InitUpdate /\ [][NextUpdate]_vars

(* both commands *)

InitCommands == InitPlanning \/ InitRatio

NextCommands == NextPlanning \/ NextRatio

SpecCommands == InitCommands /\ [][NextCommands]_vars

-----------------------------------------------------------------------------
(* Claims on the classification *)

Classified == cmd = "classify" /\ pc = "done" /\ task.raised = ""

\* the labels and the type the classified ticket carries
TicketLabels == IF "labels" \in issue.absent THEN {} ELSE issue.labels

TicketType == IF "issuetype" \in issue.absent THEN "" ELSE issue.issuetype

\* C1: the ratio category is the first match of: label RatioExcluded or
\* Bughunting -> Excluded; label Maintenance or DevOps -> Maintenance; type
\* Bug -> Bug; otherwise Product.  A ticket labelled RatioExcluded is Excluded
\* whatever else it carries (also under the earlier classifier of main.py).
C1_RatioPrecedence ==
    Classified =>
        LET ex == TicketLabels \cap {"RatioExcluded", "Bughunting"} # {}
            mt == TicketLabels \cap {"Maintenance", "DevOps"} # {}
            bug == TicketType = "Bug"
        IN /\ ex => task.ratio_type = "Excluded"
           /\ (~ex /\ mt) => task.ratio_type = "Maintenance"
           /\ (~ex /\ ~mt /\ bug) => task.ratio_type = "Bug"
           /\ (~ex /\ ~mt /\ ~bug) => task.ratio_type = "Product"
           /\ "RatioExcluded" \in TicketLabels =>
                  /\ task.ratio_type = "Excluded"
                  /\ LegacyRatioTypeOf(TicketLabels) = "Excluded"

\* a Bug labelled both RatioExcluded and Maintenance has been classified
C1_Witness ==
    /\ Classified
    /\ issue.labels = {"RatioExcluded", "Maintenance"}
    /\ issue.issuetype = "Bug"
    /\ task.ratio_type = "Excluded"

\* C2: assignee is the display name when an assignee object is present and
\* its display name is non-empty, and "Unassigned" otherwise; is_assigned is
\* true exactly when an assignee object is present.
C2_AssigneeResolution ==
    Classified =>
        /\ task.assignee =
              IF /\ issue.assignee.present
                 /\ issue.assignee.displayName # None
                 /\ issue.assignee.displayName # <<>>
              THEN issue.assignee.displayName
              ELSE UNASSIGNED
        /\ task.is_assigned = issue.assignee.present

\* the leading whitespace-delimited token of a version name
LeadingToken(s) == TakeUntil(LStrip(s), " ")

\* the label the version-label parser is to return for a string
ExpectedLabel(s) ==
    LET token == LeadingToken(s)
    IN IF s = None \/ s = <<>> THEN None
       ELSE IF Contains(token, ".")
       THEN TakeUntil(token, ".") \o <<".">>
                \o TakeUntil(DropThrough(token, "."), ".")
       ELSE token

Extracted == cmd = "extract" /\ pc \in {"done", "crashed"}

\* C11: the version-label parser is total: on every string (and None) it
\* returns, without raising, None for an empty or None input and otherwise
\* "part0.part1" of the leading token, or the token when it has no dot
C11_ParserTotal ==
    Extracted => /\ err = ""
                 /\ version_result = ExpectedLabel(version_input)

\* C11, without the strings made only of blanks: on every other string the
\* parser returns the expected label
C11_ParserOnTokens ==
    Extracted /\ (version_input \in {None, <<>>} \/ LeadingToken(version_input) # <<>>)
        => /\ err = ""
           /\ version_result = ExpectedLabel(version_input)

C11_DocumentedCase ==
    /\ Extracted
    /\ version_input = V6120Dates
    /\ version_result = V612

\* the ticket carries every entry, and its numbers are numbers
EveryEntryGiven ==
    /\ issue.absent = {} /\ issue.null = {}
    /\ issue.hle.kind # "str" /\ issue.wsjf.kind # "str"

\* the greatest of the names of some version objects, by string comparison
GreatestName(names) ==
    LET named == {names[k] : k \in 1..Len(names)} \ {None}
    IN CHOOSE n \in named : \A m \in named : ~StrLess(n, m)

\* the label a ticket is to get from its version objects
ExpectedVersion(names) ==
    IF names = <<>> THEN None ELSE ExpectedLabel(GreatestName(names))

\* C12: the release of a task is the version label of the fix version whose
\* name is greatest as a string, None when there is no fix version; the sprint
\* is derived likewise from the sprint values; neither derivation raises
C12_ReleaseAndSprint ==
    cmd = "classify" /\ pc = "done" /\ EveryEntryGiven
        => /\ err = ""
           /\ task.fix_version = ExpectedVersion(issue.fixVersions)
           /\ task.sprint = ExpectedVersion(issue.sprint)

\* C12, for the tickets that were classified: release and sprint are the
\* labels of the greatest names ("6.9" wins over "6.12")
C12_WhenClassified ==
    Classified /\ EveryEntryGiven
        => /\ task.fix_version = ExpectedVersion(issue.fixVersions)
           /\ task.sprint = ExpectedVersion(issue.sprint)
           /\ issue.fixVersions = <<V612, V69>> => task.fix_version = V69

\* the ticket has its required entries and version names with a token
RequiredGiven ==
    /\ {"key", "summary", "issuetype", "status"} \cap (issue.absent \cup issue.null) = {}
    /\ \A names \in {issue.fixVersions, issue.sprint} :
           \A k \in 1..Len(names) :
               names[k] # None /\ LeadingToken(names[k]) # <<>>

\* is the optional entry of the ticket missing or null
Missing(name) == name \in issue.absent \cup issue.null

\* the defaults of the optional entries, on the task made of the ticket
DefaultsApplied ==
    /\ task.hle = (IF issue.hle.kind = "num" THEN issue.hle.val ELSE 0)
    /\ task.wsjf = (IF issue.wsjf.kind = "num" THEN issue.wsjf.val ELSE 0)
    /\ Missing("labels") => task.ratio_type = RatioTypeOf({}, task.type)
    /\ Missing("fixVersions") => task.fix_version = None
    /\ Missing("sprint") => task.sprint = None
    /\ (~issue.tl1.present /\ ~issue.tl2.present) => task.tl = <<>>
    /\ (Missing("timetracking") \/ Missing("timeSpentSeconds")) => task.time_spent = 0
    /\ task.hle >= 0 /\ task.wsjf >= 0 /\ task.time_spent >= 0

\* C13: classifying a ticket never fails over an optional entry that is
\* absent, null or ill-shaped: estimate and priority score become 0, labels
\* the empty set, release and sprint None, tech leads "", time spent 0, and
\* estimate, priority score and time spent are never negative
C13_OptionalDefaults ==
    cmd = "classify" /\ pc = "done" /\ RequiredGiven
        => err = "" /\ DefaultsApplied

\* C13, for the tickets that were classified: the defaults are applied
C13_WhenClassified == Classified /\ RequiredGiven => DefaultsApplied

\* a structurally required entry of the ticket is missing
RequiredMissing ==
    {"key", "summary", "issuetype", "status"} \cap issue.absent # {}

\* C14: a ticket without key, title, type or status is not turned into a
\* Task with a blank value there: its classification fails
C14_MalformedRejected ==
    cmd = "classify" /\ pc = "done" /\ RequiredMissing
        => /\ task.raised # ""
           /\ err # ""

\* the uppercased first characters of the words of a display name
WordInitials(name) ==
    LET starts == {k \in 1..Len(name) :
                      name[k] # " " /\ (k = 1 \/ name[k - 1] = " ")}
        pick[S \in SUBSET starts] ==
            IF S = {} THEN <<>>
            ELSE LET k == CHOOSE x \in S : \A y \in S : x <= y
                 IN <<ToUpper(name[k])>> \o pick[S \ {k}]
    IN pick[starts]

\* one side of the tech-lead label: the initials, "" without a non-blank name
SideOf(tl) ==
    IF tl.present /\ tl.displayName # None THEN WordInitials(tl.displayName)
    ELSE <<>>

-----------------------------------------------------------------------------
(* Claims on the planning aggregation *)

\* the aggregation loop of planning has started and nothing was lost since
Aggregating ==
    /\ cmd = "planning"
    /\ \/ pc \in {"aggregate", "general", "done"}
       \/ pc = "crashed" /\ err = "ZeroDivisionError"

\* is the i-th fetched task in the task list of the plan named name
InPlan(n, name) ==
    /\ DictHas(tasks_by_assignee, name)
    /\ \E m \in 1..Len(DictGet(tasks_by_assignee, name).tasks) :
           DictGet(tasks_by_assignee, name).tasks[m] = tasks[n]

C4_ZeroSumReported ==
    (/\ cmd = "planning"
     /\ pc \in {"general", "done", "crashed"}
     /\ client = "constructed"
     /\ \/ WorkTotal(HleAssigned(tasks_by_assignee)) = 0
        \/ WorkTotal(HleAll(tasks_by_assignee)) = 0)
    => /\ err # "ZeroDivisionError"
       /\ \E n \in 1..Len(out) : out[n].kind = "general"

\* the total estimate of every plan of an aggregate
TotalsOf(plans) == [name \in DictKeys(plans) |-> DictGet(plans, name).total_hle]

\* the orders in which n tasks can be processed
Orders(n) == {f \in [1..n -> 1..n] : \A a, b \in 1..n : f[a] = f[b] => a = b}

GeneralInfoRan ==
    /\ cmd = "planning"
    /\ \/ pc \in {"general", "done"}
       \/ pc = "crashed" /\ err = "ZeroDivisionError"

\* the sum of the estimates of the fetched tasks that satisfy keep
EstimateSum(keep(_)) ==
    SumTo([n \in 1..Len(tasks) |-> IF keep(tasks[n]) THEN tasks[n].hle ELSE 0],
          Len(tasks))

MainInfoRan ==
    /\ cmd = "main"
    /\ \/ pc \in {"general", "done"}
       \/ pc = "crashed" /\ err = "ZeroDivisionError"

C20_PlansPositive ==
    Aggregating =>
        \A name \in DictKeys(team_members) :
            /\ DictGet(tasks_by_assignee, name).wd > 0
            /\ DictGet(tasks_by_assignee, name).wd <= 10
            /\ DictGet(tasks_by_assignee, name).vel > 0

\* C20, without overrides: the plans have the validated pairs of the file
C20_WithoutOverrides ==
    Aggregating /\ member = <<>> =>
        \A name \in DictKeys(team_members) :
            /\ DictGet(tasks_by_assignee, name).wd > 0
            /\ DictGet(tasks_by_assignee, name).wd <= 10
            /\ DictGet(tasks_by_assignee, name).vel > 0

-----------------------------------------------------------------------------
(* Claims on the paged fetch *)

\* the response to the n-th request sent
Received(n) == ResponseTo(sent[n])

\* the keys of the issues of the pages received, Epics left out, in order
RECURSIVE ReceivedKeys(_)
ReceivedKeys(n) ==
    IF n = 0 THEN <<>>
    ELSE LET page == Received(n).issues
             kept == SelectSeq(page, LAMBDA raw : raw.issuetype # "Epic")
         IN ReceivedKeys(n - 1) \o [k \in 1..Len(kept) |-> kept[k].key]

\* following the tokens from the first page, does the server come to a page
\* without token or with a failure status within the given number of requests
RECURSIVE ServerEnds(_, _)
ServerEnds(token, left) ==
    /\ left > 0
    /\ \/ ResponseTo(token).status # 200
       \/ ResponseTo(token).nextPageToken = 0
       \/ ServerEnds(ResponseTo(token).nextPageToken, left - 1)

\* what holds of fetch_tasks at every moment
FetchInOrder ==
    cmd = "fetch" =>
        /\ Len(sent) = requests
        /\ \A n \in 1..Len(sent) :
               /\ sent[n] = (IF n = 1 THEN 0 ELSE Received(n - 1).nextPageToken)
               /\ n < Len(sent) => /\ Received(n).status = 200
                                   /\ Received(n).nextPageToken # 0
        /\ pc \in {"fetched", "done"} =>
               /\ Received(Len(sent)).status = 200
               /\ Received(Len(sent)).nextPageToken = 0
        /\ pc = "done" =>
               /\ [n \in 1..Len(tasks) |-> tasks[n].key] = ReceivedKeys(Len(sent))
               /\ \A n \in 1..Len(tasks) : tasks[n].type # "Epic"
        /\ (\E n \in 1..Len(sent) : Received(n).status # 200) =>
               pc = "failed" /\ tasks = <<>>
        /\ pc # "done" => tasks = <<>>

-----------------------------------------------------------------------------
(* Claims on update_fix_versions *)

\* the keys of the fetched tickets that are to be updated: those that are
\* no Epic and have no fix version, in fetch order
KeysToUpdate ==
    LET kept == SelectSeq(tracker, LAMBDA raw : raw.issuetype # "Epic"
                                                  /\ raw.fixVersions = <<>>)
    IN [n \in 1..Len(kept) |-> kept[n].key]

\* a version of the project starts with the sprint
VersionExists ==
    \E n \in 1..Len(versions) :
        /\ Len(versions[n].name) >= Len(sprint)
        /\ \A k \in 1..Len(sprint) : versions[n].name[k] = sprint[k]

-----------------------------------------------------------------------------
(* Claims on the ratio aggregation *)

\* the number of tasks the aggregation loop of ratio has processed
Bucketed == IF pc = "aggregate" THEN i ELSE Len(tasks)

BucketsBuilt ==
    /\ cmd = "ratio"
    /\ client = "constructed"
    /\ pc \in {"aggregate", "report", "done", "crashed"}

\* the bucket label the claims give a task
LabelOf(t) == IF t.fix_version = None THEN NoFixVersion ELSE t.fix_version

\* the sum over ts of field f ("hle" or "time_spent") of the tasks whose
\* ratio type is in cats
SumOver(ts, f, cats) ==
    SumTo([n \in 1..Len(ts) |-> IF ts[n].ratio_type \in cats THEN ts[n][f] ELSE 0],
          Len(ts))

\* C5: a zero percentage denominator (maintenance + product estimate, or
\* maintenance + product time spent, of a bucket or of the grand totals)
\* never makes the ratio report raise.
C5_ZeroDenominatorReported ==
    (cmd = "ratio" /\ pc = "crashed" /\ err = "ZeroDivisionError") =>
        /\ i < Len(buckets)
        /\ LET data == DictGet(buckets, Sorted(DictKeys(buckets))[i + 1])
           IN /\ MaintenanceOf(data) + ProductOf(data) # 0
              /\ TimeMaintenanceOf(data) + TimeProductOf(data) # 0

\* C6: every processed task is in exactly one bucket, that of its release
\* token or "No Fix Version"; each bucket's maintenance figure is the sum
\* over its Maintenance tasks, its product figure the sum over its Product
\* and Bug tasks, its excluded figure the sum over its Excluded tasks, for
\* estimates and for time spent; the three-ticket scenario gives 6.12 the
\* figures 2 / 1 and 6.13 excluded 3 with maintenance + product 0.
C6_BucketSums ==
    BucketsBuilt =>
        LET done == SubSeq(tasks, 1, Bucketed)
        IN /\ DictKeys(buckets) = {LabelOf(done[n]) : n \in 1..Len(done)}
           /\ \A b \in DictKeys(buckets) :
                  LET data == DictGet(buckets, b)
                  IN /\ data.tasks = SelectSeq(done, LAMBDA t : LabelOf(t) = b)
                     /\ MaintenanceOf(data) = SumOver(data.tasks, "hle", {"Maintenance"})
                     /\ ProductOf(data) = SumOver(data.tasks, "hle", {"Product", "Bug"})
                     /\ ExcludedOf(data) = SumOver(data.tasks, "hle", {"Excluded"})
                     /\ TimeMaintenanceOf(data) =
                            SumOver(data.tasks, "time_spent", {"Maintenance"})
                     /\ TimeProductOf(data) =
                            SumOver(data.tasks, "time_spent", {"Product", "Bug"})
                     /\ data.time["Excluded"] =
                            SumOver(data.tasks, "time_spent", {"Excluded"})
           /\ (/\ Len(done) = 3
               /\ done[1].key = "KNJ-1" /\ done[2].key = "KNJ-2"
               /\ done[3].key = "KNJ-3") =>
                  /\ DictKeys(buckets) = {V612, V613}
                  /\ MaintenanceOf(DictGet(buckets, V612)) = 2
                  /\ ProductOf(DictGet(buckets, V612)) = 1
                  /\ ExcludedOf(DictGet(buckets, V613)) = 3
                  /\ MaintenanceOf(DictGet(buckets, V613))
                         + ProductOf(DictGet(buckets, V613)) = 0

\* the three tickets of the scenario have been put into their buckets
C6_Witness ==
    /\ cmd = "ratio" /\ pc = "report"
    /\ Len(tasks) = 3
    /\ tasks[1].key = "KNJ-1" /\ tasks[2].key = "KNJ-2" /\ tasks[3].key = "KNJ-3"
    /\ tasks[2].ratio_type = "Bug"
    /\ Len(DictGet(buckets, V612).tasks) = 2
    /\ ProductOf(DictGet(buckets, V612)) = 1

\* C7: a bucket's efficiency is (maintenance + product + excluded) / budget
\* exactly when the working days mapping has an entry for its release and is
\* absent otherwise; a budget of 0 does not make the report raise.
C7_Efficiency ==
    cmd = "ratio" =>
        /\ \A n \in 1..Len(table) :
               table[n].kind = "bucket" =>
                   /\ table[n].efficiency.present =
                          HasWorkingDays(team_config, table[n].fix_version)
                   /\ table[n].efficiency.present =>
                          /\ table[n].efficiency.load =
                                 table[n].maintenance + table[n].product
                                     + table[n].excluded
                          /\ table[n].efficiency.working_days =
                                 WorkingDaysTotal(team_config, table[n].fix_version)
        /\ (pc = "crashed" /\ err = "ZeroDivisionError" /\ i < Len(buckets)) =>
               LET fix_version == Sorted(DictKeys(buckets))[i + 1]
                   data == DictGet(buckets, fix_version)
               IN ~(/\ MaintenanceOf(data) + ProductOf(data) # 0
                    /\ TimeMaintenanceOf(data) + TimeProductOf(data) # 0
                    /\ HasWorkingDays(team_config, fix_version)
                    /\ WorkingDaysTotal(team_config, fix_version) = 0)

\* the position of the first fetched task with this key
FetchPosition(key) == CHOOSE n \in 1..Len(tasks) :
                          /\ tasks[n].key = key
                          /\ \A m \in 1..(n - 1) : tasks[m].key # key

\* the rows of the ratio table that belong to a bucket
BucketRows == SelectSeq(table, LAMBDA row : row.kind \in {"task", "bucket"})

\* C18: the ratio report lists the buckets in ascending order of their label
\* as a string ("No Fix Version" where that label sorts), each bucket's task
\* rows before its summary row, and within a bucket the tasks by assignee
\* name, tasks of one assignee in fetch order
C18_ReportOrder ==
    cmd = "ratio" /\ pc \in {"report", "done", "crashed"} /\ client = "constructed"
        => \A a, b \in 1..Len(BucketRows) :
               a < b =>
                   LET x == BucketRows[a]
                       y == BucketRows[b]
                   IN IF x.fix_version # y.fix_version
                      THEN StrLess(x.fix_version, y.fix_version)
                      ELSE /\ x.kind = "task"
                           /\ y.kind = "task" =>
                                  /\ ~StrLess(y.assignee, x.assignee)
                                  /\ x.assignee = y.assignee =>
                                         FetchPosition(x.key) <= FetchPosition(y.key)

\* the report is printed: Bob's task was fetched before Alice's task of the
\* same release and is listed after it, and the "No Fix Version" bucket
\* comes after the release
C18_Witness ==
    /\ cmd = "ratio" /\ pc = "done"
    /\ Len(table) >= 5
    /\ table[1].kind = "task" /\ table[1].assignee = Alice
    /\ table[2].kind = "task" /\ table[2].assignee = Bob
    /\ table[1].fix_version = table[2].fix_version
    /\ FetchPosition(table[2].key) < FetchPosition(table[1].key)
    /\ table[3].kind = "bucket" /\ table[3].fix_version = V612
    /\ table[4].fix_version = NoFixVersion

-----------------------------------------------------------------------------
(* Claims on the team configuration *)

\* the members of the loaded configuration
LoadedMembers == {team_config.members[n] : n \in 1..Len(team_config.members)}

\* C8: apply_overrides returns a mapping whose keys are exactly the
\* configured full names; a member whose nickname is overridden gets the
\* override's pair, every other member keeps its configured pair.
C8_ApplyOverrides ==
    (cmd = "team" /\ pc = "done") =>
        /\ DictKeys(team_members) = {m.name : m \in LoadedMembers}
        /\ \A m \in LoadedMembers :
               DictGet(team_members, m.name) =
                   IF DictHas(parsed_overrides, m.nickname)
                   THEN DictGet(parsed_overrides, m.nickname)
                   ELSE <<m.wd, m.vel>>

\* what the data model asks of a team file
TeamFileValid(raw_config) ==
    LET ms == raw_config.members
    IN /\ Len(ms) >= 1
       /\ \A n \in 1..Len(ms) :
              /\ ms[n].wd > 0 /\ ms[n].wd <= 10 /\ ms[n].vel > 0
              /\ Strip(ms[n].name) # <<>> /\ Strip(ms[n].nickname) # <<>>
       /\ \A n, m \in 1..Len(ms) :
              n # m => /\ Strip(ms[n].nickname) # Strip(ms[m].nickname)
                       /\ Strip(ms[n].name) # Strip(ms[m].name)

\* C9: loading fails whenever a member has non-positive work_days or
\* velocity, work_days above 10, a blank name or nickname, whenever two
\* members share a nickname or a name, or the member list is empty.
C9_InvalidTeamRejected ==
    (cmd = "team" /\ pc # "start" /\ ~TeamFileValid(team)) =>
        pc = "failed" /\ err = "ValidationError"

-----------------------------------------------------------------------------
(* Claims on the commands *)

\* a numeric option part: blanks, an optional sign, then digits only
IsNumber(s) ==
    LET t == Strip(s)
        u == IF t # <<>> /\ Head(t) = "-" THEN Tail(t) ELSE t
    IN u # <<>> /\ \A n \in 1..Len(u) : IsDigit(u[n])

\* value reads nickname=wd,vel with two numeric values
WellFormed(value) ==
    \E p, q \in 1..Len(value) :
        /\ p < q
        /\ value[p] = "=" /\ \A n \in 1..(p - 1) : value[n] # "="
        /\ value[q] = "," /\ \A n \in (p + 1)..(q - 1) : value[n] # ","
        /\ IsNumber(SubSeq(value, p + 1, q - 1))
        /\ IsNumber(SubSeq(value, q + 1, Len(value)))

\* the run was started with an input the command must reject
RejectedInput ==
    /\ cmd \in {"planning", "ratio"}
    /\ \/ filter_id = ""
       \/ team.members = <<>>
       \/ \E n \in 1..Len(team.members) : ~MemberValid(team.members[n])
       \/ cmd = "planning" /\ \E n \in 1..Len(member) : ~WellFormed(member[n])

====
